---- MODULE Spec2Model ----
(***************************************************************************)
(* Model of the website-data collection pipeline of phishing-detector:     *)
(*   app/collectors/web_collector.py                                       *)
(*     WebDataCollector   (__aenter__, __aexit__, collect_website_data,    *)
(*                         _get_ssl_info, _calculate_ssl_validity)         *)
(*     BatchDataCollector (collect_batch)                                  *)
(*                                                                         *)
(* collect_batch runs one asyncio task per URL on one event loop.  A task  *)
(* runs without interruption from one suspension point (await on the       *)
(* semaphore, on the HTTP response, on the body) to the next, so each      *)
(* action below is one such run.  _get_ssl_info is declared async but      *)
(* contains no await: its socket connect is a blocking call made on the    *)
(* event-loop thread, which is modelled by loopBusy.                       *)
(*                                                                         *)
(* The helpers of the collector (fingerprint, redirects, links, forms,     *)
(* content length, certificate validity), the feature extractor of         *)
(* app/features/feature_extractor.py, the URL features of                  *)
(* data_collection.py and the entropy functions are synchronous; each has  *)
(* a specification of its own (FingerprintSpec, RedirectSpec, LinksSpec,   *)
(* FormsSpec, FeatureSpec, EntropySpec, UrlSpec, SslValiditySpec,          *)
(* LengthSpec, ObfuscationSpec) that draws its arguments in Init and       *)
(* leaves the batch machine in its initial state.                          *)
(***************************************************************************)
EXTENDS Integers, Sequences, FiniteSets, TLC

\* Longest URL list handed to collect_batch.
MaxUrls == 3
\* Largest max_concurrent handed to collect_batch.
MaxConcurrent == 2

VARIABLES
    session,    \* WebDataCollector.session: "none" | "open" | "closed"
    phase,      \* collect_batch: "idle" | "running" | "returned"
    urls,       \* the urls argument of collect_batch
    maxc,       \* the max_concurrent argument of collect_batch
    sem,        \* value of the asyncio.Semaphore created by collect_batch
    pc,         \* pc[i]: where the task of urls[i] is suspended
    ev,         \* ev[i]: what the network / the parsers did to task i
    results,    \* the list asyncio.gather fills, one slot per task
    loopBusy,   \* task whose blocking call holds the event loop, 0 if none
    output,     \* website_data_list returned by collect_batch
    overtaken,  \* some task finished while an earlier URL was unfinished
    call,       \* arguments of the helper / extractor call under analysis
    ret         \* what that call has produced so far

vars == <<session, phase, urls, maxc, sem, pc, ev, results, loopBusy,
          output, overtaken, call, ret>>

\* The helper calls analysed on their own (fingerprint, redirects, page
\* extraction, feature extraction, entropy) live in call and ret; the batch
\* machine leaves both alone.
fnVars == <<call, ret>>

----------------------------------------------------------------------------
(* URLs are character sequences, so that prefix tests and scheme parsing   *)
(* are computed rather than assumed.                                       *)

HttpUrl   == <<"h","t","t","p",":","/","/","a">>
HttpsUrl  == <<"h","t","t","p","s",":","/","/","b">>
\* https:// followed by a path only: a URL without a host
NoHostUrl == <<"h","t","t","p","s",":","/","/","/">>

URLS == {HttpUrl, HttpsUrl, NoHostUrl}

HttpsPrefix == <<"h","t","t","p","s",":","/","/">>
HttpPrefix  == <<"h","t","t","p">>

\* str.startswith
StartsWith(s, p) == Len(s) >= Len(p) /\ SubSeq(s, 1, Len(p)) = p

\* str.lower on the elements the texts of the model are made of: the
\* capital letters that occur in URLs and header values, and the script
\* tokens that hold capitals
LowerChar(c) ==
    CASE c = "H" -> "h" [] c = "T" -> "t" [] c = "P" -> "p" [] c = "S" -> "s"
      [] c = "L" -> "l" [] c = "O" -> "o" [] c = "G" -> "g" [] c = "I" -> "i"
      [] c = "N" -> "n"
      [] c = "fromCharCode" -> "fromcharcode"
      [] c = "\\x4A" -> "\\x4a"
      [] OTHER -> c

\* str.lower
Lower(s) == [i \in 1..Len(s) |-> LowerChar(s[i])]

RECURSIVE SchemeChars(_)
SchemeChars(s) ==
    IF s = <<>> \/ Head(s) = ":" THEN <<>>
    ELSE <<LowerChar(Head(s))>> \o SchemeChars(Tail(s))

\* urlparse(url).scheme: the characters before the first ':', lower-cased
UrlScheme(url) == SchemeChars(url)

RECURSIVE UpToSlash(_)
UpToSlash(s) ==
    IF s = <<>> \/ Head(s) = "/" THEN <<>>
    ELSE <<Head(s)>> \o UpToSlash(Tail(s))

\* urlparse(url).netloc: what stands between "://" and the next "/" (no
\* URL of the model has a '?' or a '#' before its first '/')
UrlNetloc(url) ==
    LET n == Len(SchemeChars(url)) IN
    IF Len(url) >= n + 3 /\ SubSeq(url, n + 1, n + 3) = <<":","/","/">>
    THEN UpToSlash(SubSeq(url, n + 4, Len(url)))
    ELSE <<>>

RECURSIVE UpToColon(_)
UpToColon(s) ==
    IF s = <<>> \/ Head(s) = ":" THEN <<>>
    ELSE <<Head(s)>> \o UpToColon(Tail(s))

\* urlparse(url).hostname: the netloc without its ":port", lower-cased (no
\* URL of the model has userinfo or an IPv6 literal); the empty sequence
\* stands for None
UrlHostname(url) == Lower(UpToColon(UrlNetloc(url)))

\* Mutation of the scheme test: startswith('http') instead of 'https://'
IsHttpsRequestLoose(url) == StartsWith(url, HttpPrefix)

\* line 135: url.startswith('https://')
IsHttpsRequest(url) == StartsWith(url, HttpsPrefix)

----------------------------------------------------------------------------
(* Values *)

NoneSsl == [present |-> FALSE, valid_days |-> 0]

None    == [tag |-> "None", url |-> <<>>, ssl_info |-> NoneSsl, kind |-> ""]
Pending == [tag |-> "Pending", url |-> <<>>, ssl_info |-> NoneSsl, kind |-> ""]

WebsiteData(url, ssl) ==
    [tag |-> "WebsiteData", url |-> url, ssl_info |-> ssl, kind |-> ""]

Raised(kind) ==
    [tag |-> "Exception", url |-> <<>>, ssl_info |-> NoneSsl, kind |-> kind]

\* isinstance(result, WebsiteData)
IsWebsiteData(r) == r.tag = "WebsiteData"

\* isinstance(result, Exception)
IsException(r) == r.tag = "Exception"

Max(a, b) == IF a >= b THEN a ELSE b

\* Days a certificate met in the model has left.
CertDaysLeft == {10}

\* _calculate_ssl_validity: max(0, days_left), 0 when notAfter cannot be read
CalculateSslValidity(cert) ==
    IF cert.parsable THEN Max(0, cert.days_left) ELSE 0


----------------------------------------------------------------------------
(* _get_ssl_info, lines 259-292 *)

\* What the TLS peer can do once _get_ssl_info has a hostname.  With
\* verify_mode = CERT_NONE the peer certificate is normally reported as an
\* empty dict ("no_cert"); the other certificate outcomes keep lines 278-287
\* in the model.
SslPeerOutcomes ==
    {"connect_error", "no_cert", "cert_malformed", "cert_bad_date", "cert_ok"}

SslReturned(v) == [raised |-> FALSE, val |-> v]
SslRaised      == [raised |-> TRUE,  val |-> NoneSsl]

\* Mutation of the handler of lines 289-292: the exception leaves
\* _get_ssl_info.
SslOnExceptionPropagate(kind) == SslRaised

\* lines 289-292: except Exception -> warning, then return None
SslOnException(kind) == SslReturned(NoneSsl)

\* lines 261-292; o is what the peer does once the connect is attempted
GetSslInfo(url, o, days) ==
    CASE UrlHostname(url) = <<>> -> SslReturned(NoneSsl)
      [] o = "connect_error"  -> SslOnException("OSError")
      [] o = "no_cert"        -> SslReturned(NoneSsl)
      [] o = "cert_malformed" -> SslOnException("ValueError")
      [] o = "cert_bad_date"  ->
            SslReturned([present |-> TRUE,
                         valid_days |-> CalculateSslValidity(
                             [parsable |-> FALSE, days_left |-> days])])
      [] o = "cert_ok"        ->
            SslReturned([present |-> TRUE,
                         valid_days |-> CalculateSslValidity(
                             [parsable |-> TRUE, days_left |-> days])])

----------------------------------------------------------------------------
(* collect_website_data, lines 90-164 *)

\* Ways session.get can end without a response (all subclasses of Exception).
GetFailures == {"ClientError", "TimeoutError"}

\* Mutation of the handler of lines 162-164: only aiohttp.ClientError is
\* caught.
OnExceptionClientErrorOnly(kind) ==
    IF kind = "ClientError" THEN None ELSE Raised(kind)

\* lines 162-164: except Exception -> error log, return None
OnException(kind) == None

\* lines 133-160: the record built from the SSL inspection's result
RecordAfterSsl(url, r) ==
    IF r.raised THEN OnException("ssl") ELSE WebsiteData(url, r.val)

----------------------------------------------------------------------------
(* collect_batch, lines 316-342 *)

\* Mutation of the admission test: the semaphore never blocks.
CanAcquireAlways(s) == TRUE

\* line 324: async with semaphore (acquire waits while the value is 0)
CanAcquire(s) == s > 0

\* An async with block that left without giving its slot back
ReleaseSkipped(s) == s

\* line 324, leaving the async with block: semaphore.release()
Release(s) == s + 1

FirstPending(res) ==
    CHOOSE k \in 1..Len(res) :
        res[k] = Pending /\ \A j \in 1..(k - 1) : res[j] # Pending

\* Mutation of gather's bookkeeping: results kept in completion order.
StoreResultByCompletion(res, i, v) == [res EXCEPT ![FirstPending(res)] = v]

\* line 331: gather returns the results in the order of its arguments
StoreResult(res, i, v) == [res EXCEPT ![i] = v]

\* Mutation of gather's completion: it returns at the first failed child.
GatherReadyFailFast(p, res) ==
    \/ \A i \in 1..Len(p) : p[i] = "done"
    \/ \E i \in 1..Len(p) : p[i] = "done" /\ ~IsWebsiteData(res[i])

\* line 331: gather(..., return_exceptions=True) completes when every child
\* has finished, whatever the children returned or raised
GatherReady(p, res) == \A i \in 1..Len(p) : p[i] = "done"

\* Mutation of the filter: every result is kept.
KeepResultAlways(r) == TRUE

\* line 336: only WebsiteData instances are appended
KeepResult(r) == IsWebsiteData(r)

\* lines 334-340
FilterResults(res) == SelectSeq(res, KeepResult)

Tasks == 1..Len(urls)

InFlightPcs == {"http_wait", "body_wait", "ssl_connect"}

InFlight == {i \in Tasks : pc[i] \in InFlightPcs}

NoEvent == "-"


----------------------------------------------------------------------------
(* State after BatchDataCollector(config): lines 53-56 and 311-314 *)

CollectorInit ==
    /\ session = "none"
    /\ phase = "idle"
    /\ urls = <<>>
    /\ maxc = 0
    /\ sem = 0
    /\ pc = <<>>
    /\ ev = <<>>
    /\ results = <<>>
    /\ loopBusy = 0
    /\ output = <<>>
    /\ overtaken = FALSE

\* No helper call is under analysis.
NoCall == <<>>

Init ==
    /\ CollectorInit
    /\ call = NoCall
    /\ ret = NoCall

batchVars == <<phase, urls, maxc, sem, pc, ev, results, loopBusy, output,
               overtaken>>

\* WebDataCollector.__aenter__, lines 67-83, entered by the caller on
\* BatchDataCollector.collector between batches
AEnter ==
    /\ phase = "idle"
    /\ session # "open"
    /\ session' = "open"
    /\ UNCHANGED batchVars
    /\ UNCHANGED fnVars

\* WebDataCollector.__aexit__, lines 85-88
AExit ==
    /\ phase = "idle"
    /\ session = "open"
    /\ session' = "closed"
    /\ UNCHANGED batchVars
    /\ UNCHANGED fnVars

UrlLists == UNION {[1..n -> URLS] : n \in 0..MaxUrls}

\* collect_batch up to the await of gather, lines 316-331: the semaphore is
\* created and one task per URL is scheduled
StartBatch ==
    /\ phase = "idle"
    /\ \E us \in UrlLists, m \in 1..MaxConcurrent :
        /\ urls' = us
        /\ maxc' = m
        /\ sem' = m
        /\ pc' = [i \in 1..Len(us) |-> "acquire"]
        /\ ev' = [i \in 1..Len(us) |-> NoEvent]
        /\ results' = [i \in 1..Len(us) |-> Pending]
    /\ phase' = "running"
    /\ output' = <<>>
    /\ overtaken' = FALSE
    /\ UNCHANGED <<session, loopBusy>>
    /\ UNCHANGED fnVars

\* Task i ends with event e and result r: the async with block of line 324
\* is left (release) and gather records the result.
Finish(i, e, r, s) ==
    /\ pc' = [pc EXCEPT ![i] = "done"]
    /\ ev' = [ev EXCEPT ![i] = e]
    /\ results' = StoreResult(results, i, r)
    /\ sem' = Release(s)
    /\ loopBusy' = 0
    /\ overtaken' = (overtaken \/ \E j \in 1..(i - 1) : pc[j] # "done")
    /\ UNCHANGED <<session, phase, urls, maxc, output>>
    /\ UNCHANGED fnVars

\* Task i is admitted (line 324) and runs collect_website_data up to the
\* await of session.get (line 96).  Without an open session the call raises
\* at once (AttributeError on None, RuntimeError on a closed session), and so
\* it does for a URL without a host (aiohttp's InvalidURL, a ClientError).
Acquire(i) ==
    /\ phase = "running"
    /\ loopBusy = 0
    /\ i \in Tasks
    /\ pc[i] = "acquire"
    /\ CanAcquire(sem)
    /\ IF session # "open"
       THEN Finish(i, "no_session", OnException("no_session"), sem - 1)
       ELSE IF UrlHostname(urls[i]) = <<>>
       THEN Finish(i, "invalid_url", OnException("ClientError"), sem - 1)
       ELSE /\ pc' = [pc EXCEPT ![i] = "http_wait"]
            /\ sem' = sem - 1
            /\ UNCHANGED <<session, phase, urls, maxc, ev, results, loopBusy,
                           output, overtaken>>
            /\ UNCHANGED fnVars

\* session.get completes (line 96); lines 97-109 run, then the task awaits
\* response.text() (line 112)
HttpRespond(i) ==
    /\ phase = "running"
    /\ loopBusy = 0
    /\ i \in Tasks
    /\ pc[i] = "http_wait"
    /\ \/ /\ pc' = [pc EXCEPT ![i] = "body_wait"]
          /\ UNCHANGED <<session, phase, urls, maxc, sem, ev, results,
                         loopBusy, output, overtaken>>
          /\ UNCHANGED fnVars
       \/ \E k \in GetFailures : Finish(i, k, OnException(k), sem)
       \* line 109: int() of a Content-Length value that is no integer
       \/ Finish(i, "header_error", OnException("ValueError"), sem)

\* response.text() completes (line 112); lines 115-160 run.  For an https://
\* URL with a hostname the task enters the blocking connect of line 275.
BodyRead(i) ==
    /\ phase = "running"
    /\ loopBusy = 0
    /\ i \in Tasks
    /\ pc[i] = "body_wait"
    /\ \/ Finish(i, "body_error", OnException("PayloadError"), sem)
       \* lines 120-131: the parser, an extraction helper or the fingerprint
       \* raises
       \/ Finish(i, "parse_error", OnException("parse"), sem)
       \/ /\ ~IsHttpsRequest(urls[i])
          /\ Finish(i, "plain", WebsiteData(urls[i], NoneSsl), sem)
       \/ /\ IsHttpsRequest(urls[i])
          \* lines 265-266: urlparse finds no hostname (session.get has
          \* already refused such a URL, so no run gets here)
          /\ UrlHostname(urls[i]) = <<>>
          /\ Finish(i, "no_hostname",
                    RecordAfterSsl(urls[i], GetSslInfo(urls[i], "none", 0)),
                    sem)
       \/ /\ IsHttpsRequest(urls[i])
          /\ UrlHostname(urls[i]) # <<>>
          /\ pc' = [pc EXCEPT ![i] = "ssl_connect"]
          /\ loopBusy' = i
          /\ UNCHANGED <<session, phase, urls, maxc, sem, ev, results,
                         output, overtaken>>
          /\ UNCHANGED fnVars

\* The blocking connect / handshake of lines 274-276 ends; lines 278-292 and
\* 138-160 run
SslReturn(i) ==
    /\ phase = "running"
    /\ loopBusy = i
    /\ i \in Tasks
    /\ pc[i] = "ssl_connect"
    /\ \E o \in SslPeerOutcomes, d \in CertDaysLeft :
        Finish(i, o, RecordAfterSsl(urls[i], GetSslInfo(urls[i], o, d)), sem)

\* gather completes; lines 333-342 filter the results and return
GatherDone ==
    /\ phase = "running"
    /\ loopBusy = 0
    /\ GatherReady(pc, results)
    /\ output' = FilterResults(results)
    /\ phase' = "returned"
    /\ UNCHANGED <<session, urls, maxc, sem, pc, ev, results, loopBusy,
                   overtaken>>
    /\ UNCHANGED fnVars

\* The caller drops the returned list; the collector is ready for another
\* batch.
Reset ==
    /\ phase = "returned"
    /\ phase' = "idle"
    /\ urls' = <<>>
    /\ maxc' = 0
    /\ sem' = 0
    /\ pc' = <<>>
    /\ ev' = <<>>
    /\ results' = <<>>
    /\ output' = <<>>
    /\ overtaken' = FALSE
    /\ UNCHANGED <<session, loopBusy>>
    /\ UNCHANGED fnVars

Next ==
    \/ AEnter
    \/ AExit
    \/ StartBatch
    \/ \E i \in 1..MaxUrls : Acquire(i)
    \/ \E i \in 1..MaxUrls : HttpRespond(i)
    \/ \E i \in 1..MaxUrls : BodyRead(i)
    \/ \E i \in 1..MaxUrls : SslReturn(i)
    \/ GatherDone
    \/ Reset

Spec == Init /\ [][Next]_vars

\* The event loop runs every ready callback, the semaphore wakes its waiters
\* in turn, and the session's ClientTimeout ends every wait on the request
\* and on the body.  Nothing bounds the blocking connect of line 275.
FairSpec ==
    /\ Spec
    /\ \A i \in 1..MaxUrls : SF_vars(Acquire(i))
    /\ \A i \in 1..MaxUrls : WF_vars(HttpRespond(i))
    /\ \A i \in 1..MaxUrls : WF_vars(BodyRead(i))
    /\ WF_vars(GatherDone)


----------------------------------------------------------------------------
(* Vocabulary of the properties *)

Returned == phase = "returned"

HttpsScheme == <<"h","t","t","p","s">>

\* Events after which lines 138-160 build and return a WebsiteData
CollectedEvents == {"plain", "no_hostname"} \cup SslPeerOutcomes

\* Events in which the fetch itself (session.get, response.text) fails
FetchFailureEvents ==
    GetFailures \cup {"no_session", "invalid_url", "body_error"}

\* Events in which _get_ssl_info meets a failure on its own code path
SslFailureEvents ==
    {"no_hostname", "connect_error", "no_cert", "cert_malformed"}

Done(i) == pc[i] = "done"

\* Indices of the URLs whose collection returned a WebsiteData, ascending
CollectedIdx ==
    SelectSeq([i \in 1..Len(urls) |-> i],
              LAMBDA i : ev[i] \in CollectedEvents)

SslInvoked(i) ==
    pc[i] = "ssl_connect" \/ ev[i] \in SslPeerOutcomes \cup {"no_hostname"}

----------------------------------------------------------------------------
C2_BoundedInFlight == Cardinality(InFlight) <= maxc

\* max_concurrent collections are in flight and another URL is kept waiting.
C2_Witness ==
    /\ phase = "running"
    /\ Cardinality(InFlight) = maxc
    /\ \E i \in Tasks : pc[i] = "acquire"

C4_Isolation ==
    Returned =>
        \A j \in Tasks :
            /\ Done(j)
            /\ ev[j] # NoEvent
            /\ IsWebsiteData(results[j]) <=> ev[j] \in CollectedEvents
            /\ IsWebsiteData(results[j]) => results[j].url = urls[j]
            /\ ~IsWebsiteData(results[j]) => results[j] = None

\* A batch has returned in which an earlier URL's request failed and a later
\* URL was collected.
C4_Witness ==
    /\ Returned
    /\ \E i, j \in Tasks :
        /\ i < j
        /\ ev[i] \in GetFailures
        /\ IsWebsiteData(results[j])

\* C5: while one URL's collection waits, every other admitted URL that waits
\* for its response or body can take its next step.
C5_SiblingsCanStep ==
    \A i, j \in 1..MaxUrls :
        (/\ i \in Tasks
         /\ j \in Tasks
         /\ i # j
         /\ pc[i] \in InFlightPcs
         /\ pc[j] \in {"http_wait", "body_wait"})
        => ENABLED (HttpRespond(j) \/ BodyRead(j))

\* C6: every batch that has started returns.
C6_BatchReturns == (phase = "running") ~> (phase = "returned")

\* C7: no exception leaves collect_website_data; a URL whose fetch failed
\* ends with the failure value None.
C7_NoExceptionEscapes ==
    \A i \in Tasks :
        /\ ~IsException(results[i])
        /\ (Done(i) /\ ev[i] \in FetchFailureEvents) => results[i] = None

\* A request has timed out and its collection returned None.
C7_Witness ==
    \E i \in Tasks :
        /\ Done(i)
        /\ ev[i] = "TimeoutError"
        /\ results[i] = None

\* C8: once response and body have been obtained, the collection returns a
\* record whatever fails afterwards.
C8_RecordKeptAfterFetch ==
    \A i \in Tasks :
        (Done(i) /\ ev[i] \in CollectedEvents \cup {"parse_error"})
        => IsWebsiteData(results[i])

\* C9: a failure inside _get_ssl_info leaves the collection successful, with
\* a WebsiteData for that URL whose ssl_info is None.
C9_SslFailureKeepsRecord ==
    \A i \in Tasks :
        (Done(i) /\ ev[i] \in SslFailureEvents)
        => /\ IsWebsiteData(results[i])
           /\ results[i].url = urls[i]
           /\ results[i].ssl_info = NoneSsl

\* The connect of the certificate inspection failed and the URL's record was
\* returned without ssl_info.
C9_Witness ==
    \E i \in Tasks :
        /\ Done(i)
        /\ ev[i] = "connect_error"
        /\ IsWebsiteData(results[i])
        /\ results[i].ssl_info = NoneSsl

\* C10: the certificate inspection is invoked only for a URL whose scheme is
\* https, and only a record of such a URL carries ssl_info.
C10_SslOnlyForHttps ==
    \A i \in Tasks :
        /\ SslInvoked(i) => UrlScheme(urls[i]) = HttpsScheme
        /\ (IsWebsiteData(results[i]) /\ results[i].ssl_info.present)
            => UrlScheme(results[i].url) = HttpsScheme

\* An http URL was collected without certificate inspection beside an https
\* URL that was collected with it.
C10_Witness ==
    \E i, j \in Tasks :
        /\ UrlScheme(urls[i]) # HttpsScheme
        /\ ev[i] = "plain"
        /\ IsWebsiteData(results[i])
        /\ UrlScheme(urls[j]) = HttpsScheme
        /\ Done(j)
        /\ SslInvoked(j)
        /\ IsWebsiteData(results[j])


----------------------------------------------------------------------------
(* WebDataCollector._generate_fingerprint, lines 251-257, called at line   *)
(* 131 with the requested url, headers = dict(response.headers) and the    *)
(* decoded body.                                                           *)

\* Longest response body, in characters.
MaxBodyLen == 1

Bodies == UNION {[1..n -> {"x", "y"}] : n \in 0..MaxBodyLen}

\* Keys of the headers dict.  dict(response.headers) keeps each name in the
\* letter case the server sent, so "Server" and "server" are different keys.
HeaderNames == {"server", "Server", "x-powered-by"}
HeaderValues == {<<"n">>, <<"N">>}
HeaderDicts == UNION {[S -> HeaderValues] : S \in SUBSET HeaderNames}

\* dict.get(key, default)
DictGet(d, k, default) == IF k \in DOMAIN d THEN d[k] ELSE default

\* The decimal rendering of an integer inside an f-string
Decimal(n) == <<ToString(n)>>

\* hashlib.sha256(...).hexdigest(): the digest is determined by the hashed
\* string and (no collision being known) determines it
Sha256Hex(s) == [sha256 |-> s]

\* A fingerprint string that carried the body itself instead of its length
FingerprintDataWithBody(url, headers, html_content) ==
    url \o <<"|">> \o DictGet(headers, "server", <<>>) \o <<"|">>
        \o DictGet(headers, "x-powered-by", <<>>) \o <<"|">> \o html_content

\* line 254: f"{url}|{headers.get('server', '')}|
\*             {headers.get('x-powered-by', '')}|{len(html_content)}"
FingerprintData(url, headers, html_content) ==
    url \o <<"|">> \o DictGet(headers, "server", <<>>) \o <<"|">>
        \o DictGet(headers, "x-powered-by", <<>>) \o <<"|">>
        \o Decimal(Len(html_content))

\* lines 251-257
GenerateFingerprint(url, headers, html_content) ==
    Sha256Hex(FingerprintData(url, headers, html_content))

FingerprintArgs ==
    [url : {HttpUrl, HttpsUrl}, headers : HeaderDicts, html_content : Bodies]

NoDigest == Sha256Hex(<<>>)

\* Two responses are fingerprinted, in either order.
FingerprintInit ==
    /\ CollectorInit
    /\ call \in [1..2 -> FingerprintArgs]
    /\ ret = [k \in 1..2 |-> NoDigest]

FingerprintCall(k) ==
    /\ ret[k] = NoDigest
    /\ ret' = [ret EXCEPT ![k] = GenerateFingerprint(call[k].url,
                                     call[k].headers, call[k].html_content)]
    /\ UNCHANGED <<session, batchVars, call>>

FingerprintNext == \E k \in 1..2 : FingerprintCall(k)

FingerprintSpec == FingerprintInit /\ [][FingerprintNext]_vars

\* The four values the fingerprint is said to depend on
FingerprintKey(a) ==
    <<a.url, DictGet(a.headers, "server", <<>>),
      DictGet(a.headers, "x-powered-by", <<>>), Len(a.html_content)>>

BothFingerprinted == ret[1] # NoDigest /\ ret[2] # NoDigest

\* C11: two _generate_fingerprint calls whose arguments agree on the url, on
\* the value stored under "server", on the value stored under
\* "x-powered-by" ('' when the key is absent) and on the body length return
\* the same digest, whatever the other headers and the body's content are.
C11_FingerprintDependsOnKey ==
    (BothFingerprinted /\ FingerprintKey(call[1]) = FingerprintKey(call[2]))
        => ret[1] = ret[2]

\* Same key, different body content, different other headers, one digest
C11_Witness ==
    /\ BothFingerprinted
    /\ FingerprintKey(call[1]) = FingerprintKey(call[2])
    /\ call[1].html_content # call[2].html_content
    /\ DOMAIN call[1].headers # DOMAIN call[2].headers
    /\ "server" \in DOMAIN call[1].headers
    /\ ret[1] = ret[2]


----------------------------------------------------------------------------
(* The redirects field: collect_website_data, lines 96-117.  session.get   *)
(* is called with allow_redirects = config.get('follow_redirects', True);  *)
(* aiohttp answers every redirect response by a new request and appends    *)
(* the redirect response to response.history.                              *)

\* Most redirects one server chain makes.
MaxHops == 3

OtherUrl == <<"h","t","t","p",":","/","/","c">>

\* Where a request can be sent, the requested URL included: a chain may come
\* back to a URL it has visited (a cookie or login bounce).
RedirectTargets == {HttpUrl, HttpsUrl, OtherUrl}

RedirectStatuses == {301, 302}
FinalStatuses == {200, 404}

\* An aiohttp ClientResponse
Response(url, status, history) ==
    [url |-> url, status |-> status, history |-> history]

NoResponse == Response(<<>>, 0, <<>>)

\* str(resp.url)
UrlStr(resp) == resp.url

\* A redirects list that also recorded the response that ended the chain
RedirectsWithFinal(response) ==
    [k \in 1..(Len(response.history) + 1) |->
        IF k <= Len(response.history) THEN UrlStr(response.history[k])
                                      ELSE UrlStr(response)]

\* lines 115-117
Redirects(response) ==
    IF response.history # <<>>
    THEN [k \in 1..Len(response.history) |-> UrlStr(response.history[k])]
    ELSE <<>>

RedirectInit ==
    /\ CollectorInit
    /\ call \in [url : RedirectTargets, follow_redirects : BOOLEAN]
    /\ ret = [pc |-> "get", visited |-> <<call.url>>, history |-> <<>>,
              response |-> NoResponse, redirects |-> <<>>]

\* The response that ends the request arrives and lines 97-117 run.
Respond(status) ==
    LET url == ret.visited[Len(ret.visited)]
        response == Response(url, status, ret.history)
    IN  ret' = [ret EXCEPT !.pc = "responded", !.response = response,
                           !.redirects = Redirects(response)]

\* The server answers the current request with a redirect to target.  With
\* allow_redirects aiohttp keeps the response in history and requests the
\* target; without it the redirect response is the one session.get returns.
ServerRedirects(target, status) ==
    /\ ret.pc = "get"
    /\ Len(ret.history) < MaxHops
    /\ IF call.follow_redirects
       THEN ret' = [ret EXCEPT
                !.history = Append(@, Response(ret.visited[Len(ret.visited)],
                                               status, <<>>)),
                !.visited = Append(@, target)]
       ELSE Respond(status)
    /\ UNCHANGED <<session, batchVars, call>>

\* The server answers the current request with a response that is no
\* redirect.
ServerAnswers(status) ==
    /\ ret.pc = "get"
    /\ Respond(status)
    /\ UNCHANGED <<session, batchVars, call>>

RedirectNext ==
    \/ \E target \in RedirectTargets, status \in RedirectStatuses :
            ServerRedirects(target, status)
    \/ \E status \in FinalStatuses : ServerAnswers(status)

RedirectSpec == RedirectInit /\ [][RedirectNext]_vars

Responded == ret.pc = "responded"

\* The URLs requested before the one whose response ended the chain
VisitedBeforeFinal == SubSeq(ret.visited, 1, Len(ret.visited) - 1)

FinalUrl == ret.visited[Len(ret.visited)]

\* C12 as claimed: redirects lists in visiting order the URLs visited before
\* the final response, never contains the final URL, and is empty exactly
\* when no redirect was followed.
C12_RedirectsExcludeFinalUrl ==
    Responded =>
        /\ ret.redirects = VisitedBeforeFinal
        /\ \A k \in 1..Len(ret.redirects) : ret.redirects[k] # FinalUrl
        /\ (ret.redirects = <<>>) <=> (Len(ret.visited) = 1)

\* C12 amended: redirects has one entry per response received before the
\* final one, in visiting order, and no entry for the final response; it is
\* empty exactly when no redirect was followed, and holds exactly 2 entries
\* after two redirects.  (The final URL still occurs in it when the chain
\* came back to a URL it had visited.)
C12_RedirectsAreEarlierResponses ==
    Responded =>
        /\ ret.redirects = VisitedBeforeFinal
        /\ Len(ret.redirects) = Len(ret.visited) - 1
        /\ (ret.redirects = <<>>) <=> (Len(ret.visited) = 1)
        /\ (Len(ret.history) = 2) => (Len(ret.redirects) = 2)

\* Two redirects, then a 200 from a third URL: two entries, in order
C12_Witness ==
    /\ Responded
    /\ ret.response.status = 200
    /\ ret.visited = <<HttpUrl, HttpsUrl, OtherUrl>>
    /\ ret.redirects = <<HttpUrl, HttpsUrl>>


----------------------------------------------------------------------------
(* WebDataCollector._extract_links, lines 240-249.  A page is the sequence *)
(* of its <a> tags in document order; a tag is its attribute dict.         *)

\* Most <a> tags on a page.
MaxAnchors == 80

\* links[:50], line 249
LinkCap == 50

HttpUrlPrefix == <<"h","t","t","p",":","/","/">>

\* The hrefs a page author writes: absolute http and https URLs, a relative
\* path, an empty href, an upper-case scheme, and anchors without href.  The
\* position i is part of the href, so that every href of a page is
\* different and the order of the result can be told.
ATag(kind, i) ==
    CASE kind = "http"  -> [href |-> HttpUrlPrefix \o <<ToString(i)>>]
      [] kind = "https" -> [href |-> HttpsPrefix \o <<ToString(i)>>]
      [] kind = "rel"   -> [href |-> <<"/", ToString(i)>>]
      [] kind = "empty" -> [href |-> <<>>]
      [] kind = "upper" -> [href |-> <<"H","T","T","P",":","/","/",
                                       ToString(i)>>]
      [] OTHER          -> [name |-> <<ToString(i)>>]

OtherKinds == <<"rel", "nohref", "empty", "upper">>

\* Pages of n anchors; two anchors in three carry an absolute URL.
AnchorKind(i, shift) ==
    CASE (i + shift) % 3 = 0 -> "http"
      [] (i + shift) % 3 = 1 -> OtherKinds[((i \div 3) % 4) + 1]
      [] OTHER               -> "https"

Pages ==
    {[i \in 1..n |-> ATag(AnchorKind(i, shift), i)] :
        n \in 0..MaxAnchors, shift \in 0..2}

\* soup.find_all('a', href=True), line 244: the <a> tags that have an href
\* attribute, in document order
HasHref(tag) == "href" \in DOMAIN tag
FindAllAHref(soup) == SelectSeq(soup, HasHref)

\* A test that keeps every non-empty href
KeepsLinkNonEmpty(href) == href # <<>>

\* line 246: href and href.startswith(('http://', 'https://'))
KeepsLink(href) ==
    /\ href # <<>>
    /\ StartsWith(href, HttpUrlPrefix) \/ StartsWith(href, HttpsPrefix)

\* lines 243-247: the loop over the tags, appending to links
\* in document order: the href of every tag that passes the test of line 246
LinksLoop(tags, links) ==
    LET Kept(tag) == KeepsLink(tag.href)
        kept == SelectSeq(tags, Kept)
    IN  links \o [k \in 1..Len(kept) |-> kept[k].href]

\* The Python slice s[:n], n >= 0
SliceTo(s, n) == SubSeq(s, 1, IF Len(s) < n THEN Len(s) ELSE n)

\* lines 240-249
ExtractLinks(soup) == SliceTo(LinksLoop(FindAllAHref(soup), <<>>), LinkCap)

LinksInit ==
    /\ CollectorInit
    /\ call \in Pages
    /\ ret = [done |-> FALSE, links |-> <<>>]

ExtractLinksCall ==
    /\ ~ret.done
    /\ ret' = [done |-> TRUE, links |-> ExtractLinks(call)]
    /\ UNCHANGED <<session, batchVars, call>>

LinksNext == ExtractLinksCall

LinksSpec == LinksInit /\ [][LinksNext]_vars

\* Positions of the anchors whose href is an absolute http:// or https:// URL
Qualifying ==
    {i \in 1..Len(call) :
        /\ "href" \in DOMAIN call[i]
        /\ \/ StartsWith(call[i].href, HttpUrlPrefix)
           \/ StartsWith(call[i].href, HttpsPrefix)}

\* Position of the k-th qualifying anchor
KthQualifying(k) ==
    CHOOSE i \in Qualifying : Cardinality({j \in Qualifying : j <= i}) = k

\* C13: _extract_links returns the hrefs of the first min(50, n) of the n
\* anchors whose href is an absolute http:// or https:// URL, in document
\* order, and nothing else; never more than 50 entries.
C13_FirstFiftyAbsoluteLinks ==
    ret.done =>
        /\ Len(ret.links) <= LinkCap
        /\ Len(ret.links) = IF Cardinality(Qualifying) < LinkCap
                            THEN Cardinality(Qualifying) ELSE LinkCap
        /\ \A k \in 1..Len(ret.links) :
               ret.links[k] = call[KthQualifying(k)].href

\* A page with more than 50 qualifying anchors, cut at 50
C13_Witness ==
    /\ ret.done
    /\ Cardinality(Qualifying) > LinkCap
    /\ Len(ret.links) = LinkCap
    /\ ~(1 \in Qualifying)
    /\ ret.links[LinkCap] = call[KthQualifying(LinkCap)].href


----------------------------------------------------------------------------
(* WebDataCollector._extract_forms, lines 210-238, and the has_password_form *)
(* feature, feature_extractor.py line 229.  A page is the sequence of its  *)
(* <form> tags; a form tag is the sequence of its input / textarea /       *)
(* select tags; such a tag is its attribute dict.                          *)

\* Most <form> tags on a page.
MaxForms == 2
\* Most input / textarea / select tags in a form.
MaxFields == 2

\* A named password input, a password input without name, a named tag
\* without type (a textarea, or an input left at its default type), and a
\* named input whose type is spelled "Password".
FieldTags ==
    { [type |-> <<"password">>, name |-> <<"p">>],
      [type |-> <<"password">>],
      [name |-> <<"q">>],
      [type |-> <<"Password">>, name |-> <<"r">>] }

FormTags == UNION {[1..n -> FieldTags] : n \in 0..MaxFields}
FormPages == UNION {[1..n -> FormTags] : n \in 0..MaxForms}

\* A has_password that did not look at the field's name
FieldSetsPasswordUnnamed(field_type, field_name) ==
    field_type = <<"password">>

\* lines 226 and 232: inside "if field_name:", if field_type == 'password'
FieldSetsPassword(field_type, field_name) ==
    field_name # <<>> /\ field_type = <<"password">>

\* lines 222-233: the loop over the fields of one form
RECURSIVE FieldsLoop(_, _)
FieldsLoop(tags, form_data) ==
    IF tags = <<>> THEN form_data
    ELSE LET field_type == DictGet(Head(tags), "type", <<"text">>)
             field_name == DictGet(Head(tags), "name", <<>>)
             recorded ==
                 IF field_name # <<>>
                 THEN Append(form_data.fields,
                             [name |-> field_name, type |-> field_type])
                 ELSE form_data.fields
         IN  FieldsLoop(Tail(tags),
                 [form_data EXCEPT
                     !.fields = recorded,
                     !.has_password =
                         @ \/ FieldSetsPassword(field_type, field_name)])

\* lines 215-220
NewFormData ==
    [action |-> <<>>, method |-> <<"get">>, fields |-> <<>>,
     has_password |-> FALSE]

\* lines 210-238
ExtractForms(soup) ==
    [k \in 1..Len(soup) |-> FieldsLoop(soup[k], NewFormData)]

\* feature_extractor.py line 229: any(form['has_password'] for form in forms)
HasPasswordForm(forms) == \E k \in 1..Len(forms) : forms[k].has_password

FormsInit ==
    /\ CollectorInit
    /\ call \in FormPages
    /\ ret = [pc |-> "parsed", forms |-> <<>>, has_password_form |-> FALSE]

\* collect_website_data, line 127
ExtractFormsCall ==
    /\ ret.pc = "parsed"
    /\ ret' = [ret EXCEPT !.pc = "collected", !.forms = ExtractForms(call)]
    /\ UNCHANGED <<session, batchVars, call>>

\* _extract_html_features on the collected record, line 229
HtmlFormFeaturesCall ==
    /\ ret.pc = "collected"
    /\ ret' = [ret EXCEPT !.pc = "extracted",
                          !.has_password_form = HasPasswordForm(ret.forms)]
    /\ UNCHANGED <<session, batchVars, call>>

FormsNext == ExtractFormsCall \/ HtmlFormFeaturesCall

FormsSpec == FormsInit /\ [][FormsNext]_vars

\* The tags of form k that carry a non-empty name
NamedTags(k) ==
    {i \in 1..Len(call[k]) :
        "name" \in DOMAIN call[k][i] /\ call[k][i].name # <<>>}

RecordedHasPassword(form_data) ==
    \E j \in 1..Len(form_data.fields) :
        form_data.fields[j].type = <<"password">>

\* C14: _extract_forms returns one entry per form; only fields with a
\* non-empty name are recorded; has_password of a form is true iff a
\* recorded field has type 'password'; the has_password_form feature is
\* true iff some form has has_password true.
C14_FormsAndPasswordFlag ==
    /\ ret.pc # "parsed" =>
          /\ Len(ret.forms) = Len(call)
          /\ \A k \in 1..Len(ret.forms) :
                /\ Len(ret.forms[k].fields) = Cardinality(NamedTags(k))
                /\ \A j \in 1..Len(ret.forms[k].fields) :
                       ret.forms[k].fields[j].name # <<>>
                /\ ret.forms[k].has_password
                       <=> RecordedHasPassword(ret.forms[k])
    /\ ret.pc = "extracted" =>
          (ret.has_password_form
              <=> \E k \in 1..Len(ret.forms) : ret.forms[k].has_password)

\* Two forms: one whose only password input has no name, one with a named
\* password input; the flag of the first is false, the feature is true
C14_Witness ==
    /\ ret.pc = "extracted"
    /\ Len(call) = 2
    /\ call[1] = <<[type |-> <<"password">>], [name |-> <<"q">>]>>
    /\ ~ret.forms[1].has_password
    /\ Len(ret.forms[1].fields) = 1
    /\ ret.forms[2].has_password
    /\ ret.has_password_form


----------------------------------------------------------------------------
(* FeatureExtractor, app/features/feature_extractor.py.                    *)
(*                                                                         *)
(* Python values are records [t, n, s]: t is the type ("bool", "num" for   *)
(* int and float, "str", "none", "dict"), n the number (1 / 0 for True /   *)
(* False), s the characters of a string.                                   *)

Num(n)    == [t |-> "num",  n |-> n, s |-> <<>>]
Bool(b)   == [t |-> "bool", n |-> IF b THEN 1 ELSE 0, s |-> <<>>]
Str(s)    == [t |-> "str",  n |-> 0, s |-> s]
NoneValue == [t |-> "none", n |-> 0, s |-> <<>>]

\* Python truth value: None, 0, False and '' are false
Truthy(v) == ~(v.t = "none" \/ (v.t \in {"num", "bool"} /\ v.n = 0)
                            \/ (v.t = "str" /\ v.s = <<>>))

\* get_feature_names, lines 630-678
GetFeatureNames ==
    << "url_length", "domain_length", "url_entropy", "has_ip_address",
       "num_subdomains", "domain_age_months", "has_at_symbol",
       "has_dash_symbol", "num_dots", "num_digits", "num_letters",
       "num_special_chars", "has_port", "has_fragment", "num_params",
       "has_suspicious_tld", "is_safe_domain", "domain_similarity", "is_https",
       "has_hsts", "status_code_category", "is_redirect", "is_error",
       "has_content_security_policy", "has_x_frame_options",
       "has_strict_transport_security", "has_x_content_type_options",
       "has_x_xss_protection", "num_cookies", "has_secure_cookie",
       "has_http_only_cookie", "has_known_server", "is_cloudflare",
       "is_html_content", "has_charset", "has_no_cache", "has_no_store",
       "content_length_log", "response_time_log", "num_meta_tags",
       "has_description_meta", "has_keywords_meta", "num_external_scripts",
       "num_external_stylesheets", "num_forms", "has_password_form",
       "has_login_form", "num_links", "num_internal_links",
       "num_external_links", "internal_link_ratio", "num_images",
       "has_external_images", "num_iframes", "has_hidden_iframes",
       "num_scripts", "num_inline_scripts", "title_length", "has_title",
       "content_length", "content_length_log", "text_length",
       "text_to_html_ratio", "num_words", "avg_word_length",
       "has_suspicious_keywords", "suspicious_keyword_count", "has_emoji",
       "exclamation_count", "question_count", "uppercase_ratio",
       "has_obfuscated_js", "has_eval_function", "has_document_write",
       "has_inner_html", "has_escape_function", "has_unescape_function",
       "has_fromcharcode", "has_location_replace", "has_window_location",
       "has_form_submission", "has_crypto_terms", "has_event_listeners",
       "js_content_length", "js_content_length_log", "has_no_index",
       "has_no_follow", "has_hidden_elements", "has_popup_code",
       "has_alert_code", "has_meta_refresh", "has_frameset", "has_base_href",
       "base_href_external", "has_ssl", "ssl_valid_days", "ssl_is_valid",
       "ssl_expires_soon", "ssl_issuer_known", "ssl_subject_matches_domain" >>

\* feature_order of create_feature_vector, lines 574-620
FeatureOrder ==
    << "url_length", "domain_length", "url_entropy", "has_ip_address",
       "num_subdomains", "domain_age_months", "has_at_symbol",
       "has_dash_symbol", "num_dots", "num_digits", "num_letters",
       "num_special_chars", "has_port", "has_fragment", "num_params",
       "has_suspicious_tld", "is_safe_domain", "domain_similarity", "is_https",
       "has_hsts", "status_code_category", "is_redirect", "is_error",
       "has_content_security_policy", "has_x_frame_options",
       "has_strict_transport_security", "has_x_content_type_options",
       "has_x_xss_protection", "num_cookies", "has_secure_cookie",
       "has_http_only_cookie", "has_known_server", "is_cloudflare",
       "is_html_content", "has_charset", "has_no_cache", "has_no_store",
       "content_length_log", "response_time_log", "num_meta_tags",
       "has_description_meta", "has_keywords_meta", "num_external_scripts",
       "num_external_stylesheets", "num_forms", "has_password_form",
       "has_login_form", "num_links", "num_internal_links",
       "num_external_links", "internal_link_ratio", "num_images",
       "has_external_images", "num_iframes", "has_hidden_iframes",
       "num_scripts", "num_inline_scripts", "title_length", "has_title",
       "content_length", "content_length_log", "text_length",
       "text_to_html_ratio", "num_words", "avg_word_length",
       "has_suspicious_keywords", "suspicious_keyword_count", "has_emoji",
       "exclamation_count", "question_count", "uppercase_ratio",
       "has_obfuscated_js", "has_eval_function", "has_document_write",
       "has_inner_html", "has_escape_function", "has_unescape_function",
       "has_fromcharcode", "has_location_replace", "has_window_location",
       "has_form_submission", "has_crypto_terms", "has_event_listeners",
       "js_content_length", "js_content_length_log", "has_no_index",
       "has_no_follow", "has_hidden_elements", "has_popup_code",
       "has_alert_code", "has_meta_refresh", "has_frameset", "has_base_href",
       "base_href_external", "has_ssl", "ssl_valid_days", "ssl_is_valid",
       "ssl_expires_soon", "ssl_issuer_known", "ssl_subject_matches_domain" >>

\* The feature groups, in the order extract_features calls them (lines 47-73)
Groups == <<"url", "http", "html", "content", "javascript", "security", "ssl">>

\* The features of a group whose default is a number (0 or 0.0): the keys
\* of the dict in the group's except block
NumKeys(g) ==
    CASE g = "url" ->
            { "url_length", "domain_length", "path_length", "query_length",
               "url_entropy", "num_subdomains", "domain_age_months",
               "num_dots", "num_digits", "num_letters", "num_special_chars",
               "num_params", "domain_similarity" }
      [] g = "http" ->
            { "status_code_category", "num_cookies", "content_length_log",
               "response_time_log" }
      [] g = "html" ->
            { "num_meta_tags", "num_external_scripts",
               "num_external_stylesheets", "num_forms", "num_links",
               "num_internal_links", "num_external_links",
               "internal_link_ratio", "num_images", "num_iframes",
               "num_scripts", "num_inline_scripts" }
      [] g = "content" ->
            { "title_length", "content_length", "content_length_log",
               "text_length", "text_to_html_ratio", "num_words",
               "avg_word_length", "suspicious_keyword_count",
               "exclamation_count", "question_count", "uppercase_ratio" }
      [] g = "javascript" ->
            { "js_content_length", "js_content_length_log" }
      [] g = "security" ->
            {}
      [] g = "ssl" ->
            { "ssl_valid_days" }

\* The features of a group whose default is a boolean
BoolKeys(g) ==
    CASE g = "url" ->
            { "has_ip_address", "has_at_symbol", "has_dash_symbol",
               "has_port", "has_fragment", "has_suspicious_tld",
               "is_safe_domain", "is_https", "has_hsts" }
      [] g = "http" ->
            { "is_redirect", "is_error", "has_content_security_policy",
               "has_x_frame_options", "has_strict_transport_security",
               "has_x_content_type_options", "has_x_xss_protection",
               "has_secure_cookie", "has_http_only_cookie", "has_known_server",
               "is_cloudflare", "is_html_content", "has_charset",
               "has_no_cache", "has_no_store" }
      [] g = "html" ->
            { "has_description_meta", "has_keywords_meta",
               "has_password_form", "has_login_form", "has_external_images",
               "has_hidden_iframes" }
      [] g = "content" ->
            { "has_title", "has_suspicious_keywords", "has_emoji" }
      [] g = "javascript" ->
            { "has_obfuscated_js", "has_eval_function", "has_document_write",
               "has_inner_html", "has_escape_function",
               "has_unescape_function", "has_fromcharcode",
               "has_location_replace", "has_window_location",
               "has_form_submission", "has_crypto_terms", "has_event_listeners" }
      [] g = "security" ->
            { "has_no_index", "has_no_follow", "has_hidden_elements",
               "has_popup_code", "has_alert_code", "has_meta_refresh",
               "has_frameset", "has_base_href", "base_href_external" }
      [] g = "ssl" ->
            { "has_ssl", "ssl_is_valid", "ssl_expires_soon",
               "ssl_issuer_known", "ssl_subject_matches_domain" }

GroupKeys(g) == NumKeys(g) \cup BoolKeys(g)

\* Defaults that kept the fallback of _estimate_domain_age (6 months)
DefaultsWithDomainAge(g) ==
    [k \in GroupKeys(g) |->
        IF k = "domain_age_months" THEN Num(6)
        ELSE IF k = "ssl_expires_soon" THEN Bool(TRUE)
        ELSE IF k \in NumKeys(g) THEN Num(0) ELSE Bool(FALSE)]

\* The dict a group's except block writes (lines 133-141, 194-202, 274-281,
\* 330-335, 385-391, 435-439, 480-484) and, for ssl, also the else branch
\* for an absent ssl_info (lines 471-475): 0 / 0.0 / False throughout,
\* except 'ssl_expires_soon': True
Defaults(g) ==
    [k \in GroupKeys(g) |->
        IF k = "ssl_expires_soon" THEN Bool(TRUE)
        ELSE IF k \in NumKeys(g) THEN Num(0) ELSE Bool(FALSE)]

\* The WebsiteData objects handed to extract_features.  The dataclass
\* (web_collector.py lines 20-47) checks no field, so next to the records
\* the collector builds there are hand-built ones: a url whose port is no
\* number, a negative content_length, html_content = None, title = None, a
\* form dict without 'has_password', meta_tags = None, ssl_info a string.
BadPortUrl == <<"h","t","t","p",":","/","/","a",":","x">>
FeatureUrls == {HttpUrl, HttpsUrl, BadPortUrl}

BaseHref == <<"h","t","t","p",":","/","/","a","/">>

\* What soup.find_all('base') finds: nothing, <base target=...>, or
\* <base href="http://a/">
BaseTags == {<<>>, <<[target |-> <<"_">>]>>, <<[href |-> BaseHref]>>}

\* html_content: None, or a document of len characters
NoHtml == [t |-> "none", len |-> 0, base |-> <<>>]
HtmlContents ==
    {NoHtml} \cup {[t |-> "str", len |-> 9, base |-> b] : b \in BaseTags}

PasswordForm == [NewFormData EXCEPT !.has_password = TRUE]
FormLists == {<<>>, <<PasswordForm>>, <<[action |-> <<>>]>>}

DictValue(keys, n) == [t |-> "dict", n |-> n, s |-> keys]

\* ssl_info: None, {}, the collector's dict with its valid_days (lines
\* 279-287), or a string
SslInfos ==
    {NoneValue, DictValue(<<>>, 0), DictValue(<<"valid_days">>, 10),
     DictValue(<<"valid_days">>, 400), Str(<<"x">>)}

WebsiteDatas ==
    [url : FeatureUrls, content_length : {7, -5}, html_content : HtmlContents,
     title : {Str(<<"t">>), NoneValue}, forms : FormLists,
     meta_tags : {DictValue(<<"robots">>, 0), NoneValue},
     ssl_info : SslInfos]

\* bool(x) for the values above; an empty dict is false as well
IsTrue(v) == Truthy(v) /\ ~(v.t = "dict" /\ v.s = <<>>)

\* x and y
PyAnd(x, y) == IF IsTrue(x) THEN y ELSE x

\* sub in s
Contains(s, sub) ==
    \E i \in 0..(Len(s) - Len(sub)) : SubSeq(s, i + 1, i + Len(sub)) = sub

\* urlparse(url).port raises ValueError when what follows the ':' of the
\* netloc is no decimal number (line 113)
PortRaises(url) ==
    LET nl == UrlNetloc(url) IN
    \E i \in 1..Len(nl) :
        /\ nl[i] = ":"
        /\ \E j \in (i + 1)..Len(nl) :
               nl[j] \notin {"0","1","2","3","4","5","6","7","8","9"}

\* str.split(sep) for a one-character separator
RECURSIVE Split(_, _)
Split(s, sep) ==
    IF \A i \in 1..Len(s) : s[i] # sep THEN <<s>>
    ELSE LET k == CHOOSE i \in 1..Len(s) :
                      s[i] = sep /\ \A j \in 1..(i - 1) : s[j] # sep
         IN  <<SubSeq(s, 1, k - 1)>> \o Split(SubSeq(s, k + 1, Len(s)), sep)

\* _has_ip_address, lines 505-508 (and data_collection.py lines 153-157):
\* re.match(r'^\d{1,3}\.\d{1,3}\.\d{1,3}\.\d{1,3}$', domain), that is, the
\* whole of domain is four runs of one to three digits with dots between
HasIpAddress(domain) ==
    LET parts == Split(domain, ".") IN
    /\ Len(parts) = 4
    /\ \A i \in 1..4 :
           /\ Len(parts[i]) \in 1..3
           /\ \A j \in 1..Len(parts[i]) :
                  parts[i][j] \in {"0","1","2","3","4","5","6","7","8","9"}

\* A count of every label before the last one, as generate_synthetic_features
\* has it (data_collection.py line 133)
CountSubdomainsAllLabels(domain) == Len(Split(domain, ".")) - 1

\* _count_subdomains, lines 510-513
CountSubdomains(domain) ==
    LET parts == Split(domain, ".") IN
    IF Len(parts) > 2 THEN Len(parts) - 2 ELSE 0

\* math.log1p(x): ValueError for x <= -1, 0.0 for 0, else a float that
\* grows with x; s names the function applied to n
Log1p(x) ==
    IF x = 0 THEN Num(0) ELSE [t |-> "num", n |-> x, s |-> <<"log1p">>]

\* Does the try block of group g raise on wd?
Raises(g, wd) ==
    CASE g = "url"        -> PortRaises(wd.url)
      [] g = "http"       -> wd.content_length <= -1
      [] g = "html"       -> \/ wd.html_content.t = "none"
                             \/ \E i \in 1..Len(wd.forms) :
                                   "has_password" \notin DOMAIN wd.forms[i]
      [] g = "content"    -> wd.title.t = "none" \/ wd.html_content.t = "none"
      [] g = "javascript" -> wd.html_content.t = "none"
      [] g = "security"   -> \/ wd.meta_tags.t = "none"
                             \/ wd.html_content.t = "none"
      [] g = "ssl"        -> IsTrue(wd.ssl_info) /\ wd.ssl_info.t # "dict"

\* A feature whose expression is not spelled out below: a boolean or a
\* number that the datum the group reads determines (seed)
Measured(g, k, seed) ==
    IF k \in BoolKeys(g) THEN Bool(seed % 2 = 1) ELSE Num(seed)

\* lines 423-424: soup.find('base'), then
\* base_tag is not None and base_tag.get('href')
HasBaseHref(html) ==
    PyAnd(Bool(html.base # <<>>),
          IF html.base # <<>> /\ "href" \in DOMAIN html.base[1]
          THEN Str(html.base[1].href) ELSE NoneValue)

\* The features whose expressions are spelled out in Computed
SpelledOut ==
    {<<"url", "url_length">>, <<"url", "has_ip_address">>,
     <<"url", "num_subdomains">>, <<"url", "is_https">>,
     <<"http", "content_length_log">>, <<"html", "num_forms">>,
     <<"html", "has_password_form">>, <<"content", "title_length">>,
     <<"content", "content_length">>, <<"content", "content_length_log">>,
     <<"security", "has_base_href">>, <<"security", "base_href_external">>,
     <<"ssl", "has_ssl">>, <<"ssl", "ssl_valid_days">>,
     <<"ssl", "ssl_is_valid">>, <<"ssl", "ssl_expires_soon">>}

\* The datum the other features of a group are measured on
Seed(g, wd) ==
    CASE g = "url"  -> Len(wd.url)
      [] g = "http" -> wd.content_length
      [] g = "ssl"  -> wd.ssl_info.n
      [] OTHER      -> wd.html_content.len

\* What the try block of group g writes when it runs through
Computed(g, wd) ==
    [k \in GroupKeys(g) |->
        IF <<g, k>> \notin SpelledOut THEN Measured(g, k, Seed(g, wd))
        ELSE CASE k = "url_length" -> Num(Len(wd.url))                \* 93
               [] k = "has_ip_address" ->                              \* 102
                     Bool(HasIpAddress(Lower(UrlNetloc(wd.url))))
               [] k = "num_subdomains" ->                              \* 103
                     Num(CountSubdomains(Lower(UrlNetloc(wd.url))))
               [] k = "is_https" ->                                    \* 127
                     Bool(StartsWith(wd.url, HttpsPrefix))
               [] k = "content_length_log" /\ g = "http" ->            \* 186
                     Log1p(wd.content_length)
               [] k = "num_forms" -> Num(Len(wd.forms))                \* 228
               [] k = "has_password_form" ->                           \* 229
                     Bool(HasPasswordForm(wd.forms))
               [] k = "title_length" -> Num(Len(wd.title.s))           \* 292
               [] k = "content_length" -> Num(wd.html_content.len)     \* 297
               [] k = "content_length_log" /\ g = "content" ->         \* 298
                     Log1p(wd.html_content.len)
               [] k = "has_base_href" -> HasBaseHref(wd.html_content)  \* 424
               [] k = "base_href_external" ->                          \* 425-430
                     IF IsTrue(HasBaseHref(wd.html_content))
                     THEN Bool(~Contains(HasBaseHref(wd.html_content).s,
                                         UrlNetloc(wd.url)))
                     ELSE Bool(FALSE)
               [] k = "has_ssl" -> Bool(TRUE)                          \* 450
               [] k = "ssl_valid_days" -> Num(wd.ssl_info.n)           \* 451
               [] k = "ssl_is_valid" -> Bool(TRUE)                     \* 452
               [] k = "ssl_expires_soon" -> Bool(wd.ssl_info.n < 30)]  \* 453

\* except Exception: features.update({defaults})
OnGroupException(g) == Defaults(g)

\* An extractor that wrote its defaults whatever the record holds
ExtractGroupDefaultsOnly(g, wd) == Defaults(g)

\* One group extractor: _extract_url_features ... _extract_ssl_features,
\* what it returns
ExtractGroup(g, wd) ==
    IF Raises(g, wd) THEN OnGroupException(g)
    ELSE IF g = "ssl" /\ ~IsTrue(wd.ssl_info) THEN Defaults(g)   \* 470-475
    ELSE Computed(g, wd)

\* dict.update
Update(features, d) ==
    [k \in DOMAIN features \cup DOMAIN d |->
        IF k \in DOMAIN d THEN d[k] ELSE features[k]]

EmptyDict == [k \in {} |-> NoneValue]

\* An extractor that emptied website_data.forms while reading them
WebsiteDataConsumed(g, wd) ==
    IF g = "html" THEN [wd EXCEPT !.forms = <<>>] ELSE wd

\* website_data after a group extractor ran: no statement of lines 42-486
\* assigns to it or changes one of its containers (_extract_text removes
\* tags from a soup of its own, lines 563-566)
WebsiteDataAfter(g, wd) == wd

\* np.array(feature_vector), line 628: one str element turns every element
\* into its string (dtype <U...); with a None and no str the array has dtype
\* object and keeps the elements
NpStr(v) ==
    CASE v.t = "str"  -> v
      [] v.t = "bool" -> Str(<<IF v.n = 1 THEN "True" ELSE "False">>)
      [] v.t = "none" -> Str(<<"None">>)
      [] OTHER        -> Str(v.s \o <<ToString(v.n)>>)

NpArray(list) ==
    IF /\ \E i \in 1..Len(list) : list[i].t = "str"
       /\ \A i \in 1..Len(list) : list[i].t # "none"
    THEN [i \in 1..Len(list) |-> NpStr(list[i])]
    ELSE list

\* A lookup that left a missing feature as None
VectorValueOrNone(features, feature_name) ==
    DictGet(features, feature_name, NoneValue)

\* line 624: features.get(feature_name, 0)
VectorValue(features, feature_name) == DictGet(features, feature_name, Num(0))

\* create_feature_vector, lines 571-628
CreateFeatureVector(features) ==
    NpArray([i \in 1..Len(FeatureOrder) |->
                 VectorValue(features, FeatureOrder[i])])

\* Most extract_features calls on one WebsiteData.
MaxCalls == 2

FeatureInit ==
    /\ CollectorInit
    /\ call \in WebsiteDatas
    /\ ret = [given |-> call, results |-> <<>>, step |-> 0,
              features |-> EmptyDict, group |-> EmptyDict,
              vector_of |-> EmptyDict, vector |-> <<>>]

\* extract_features, lines 42-80, one group at a time: the i-th group
\* extractor is called on website_data and features.update takes what it
\* returns; after the last group the dict is returned (line 76).  ret.group
\* keeps what the group extractor returned.
CallGroup(i) ==
    /\ ret.step = i - 1
    /\ Len(ret.results) < MaxCalls
    /\ LET group == ExtractGroup(Groups[i], call)
           features == Update(IF i = 1 THEN EmptyDict ELSE ret.features,
                              group)
       IN  ret' = [ret EXCEPT
                      !.step = IF i = Len(Groups) THEN 0 ELSE i,
                      !.group = group,
                      !.features = features,
                      !.results = IF i = Len(Groups) THEN Append(@, features)
                                                     ELSE @]
    /\ call' = WebsiteDataAfter(Groups[i], call)
    /\ UNCHANGED <<session, batchVars>>

\* The dicts create_feature_vector is called on: what extract_features
\* returned, that dict without the URL group's keys, and {}
VectorArgs(features) ==
    {features, EmptyDict,
     [k \in DOMAIN features \ GroupKeys("url") |-> features[k]]}

\* create_feature_vector, lines 571-628
CreateFeatureVectorCall(features) ==
    /\ ret.step = 0
    /\ ret.vector = <<>>
    /\ ret' = [ret EXCEPT !.vector_of = features,
                          !.vector = CreateFeatureVector(features)]
    /\ UNCHANGED <<session, batchVars, call>>

FeatureNext ==
    \/ \E i \in 1..Len(Groups) : CallGroup(i)
    \/ /\ ret.results # <<>>
       /\ \E features \in VectorArgs(ret.results[Len(ret.results)]) :
              CreateFeatureVectorCall(features)

FeatureSpec == FeatureInit /\ [][FeatureNext]_vars

\* The WebsiteData extract_features was first called on
Given == ret.given

\* The try block of group g raises on the given WebsiteData
Failed(g) == Raises(g, Given)

SomeGroupFailed == \E i \in 1..Len(Groups) : Failed(Groups[i])

\* C15: extract_features returns a dict for every WebsiteData, and when a
\* feature group fails, the result holds that group's defaults for the
\* group's features and, for every other group, the features that group
\* computed.
C15_GroupFailureIsolated ==
    \A n \in 1..Len(ret.results) :
        SomeGroupFailed =>
            \A i \in 1..Len(Groups) : \A k \in GroupKeys(Groups[i]) :
                /\ k \in DOMAIN ret.results[n]
                /\ ret.results[n][k] =
                       IF Failed(Groups[i]) THEN Defaults(Groups[i])[k]
                       ELSE ExtractGroup(Groups[i], Given)[k]

\* What does hold when a group fails: every feature is present, and every
\* feature but content_length_log, which the HTTP group and the content
\* group both write, is what its group returned.
IsolatedButContentLengthLog ==
    \A n \in 1..Len(ret.results) :
        \A i \in 1..Len(Groups) : \A k \in GroupKeys(Groups[i]) :
            /\ k \in DOMAIN ret.results[n]
            /\ k # "content_length_log" =>
                   ret.results[n][k] = ExtractGroup(Groups[i], Given)[k]

\* A group extractor has returned; ret.group is what it returned
GroupReturned == DOMAIN ret.group # {}

LastGroup == Groups[IF ret.step = 0 THEN Len(Groups) ELSE ret.step]

\* The group's sub-extraction failed, or (ssl) there is no ssl_info
DefaultsApply(g) ==
    Failed(g) \/ (g = "ssl" /\ ~IsTrue(Given.ssl_info))

\* C16 as claimed: when a group's sub-extraction is missing or fails, every
\* feature the group returns is zero or false.
C16_DefaultsAreZeroOrFalse ==
    (GroupReturned /\ DefaultsApply(LastGroup)) =>
        \A k \in GroupKeys(LastGroup) :
            ret.group[k] \in {Num(0), Bool(FALSE)}

\* C16 amended: when a group's sub-extraction is missing or fails, the dict
\* the group's extractor returns holds zero or false for every feature of
\* the group, except ssl_expires_soon, which is True.
C16_DefaultsZeroOrFalseButExpiresSoon ==
    (GroupReturned /\ DefaultsApply(LastGroup)) =>
        /\ DOMAIN ret.group = GroupKeys(LastGroup)
        /\ \A k \in GroupKeys(LastGroup) :
               IF k = "ssl_expires_soon" THEN ret.group[k] = Bool(TRUE)
               ELSE ret.group[k] \in {Num(0), Bool(FALSE)}

\* The ssl group on a record without ssl_info
C16_Witness ==
    /\ GroupReturned
    /\ LastGroup = "ssl"
    /\ Given.ssl_info = NoneValue
    /\ ret.group["has_ssl"] = Bool(FALSE)
    /\ ret.group["ssl_valid_days"] = Num(0)
    /\ ret.group["ssl_expires_soon"] = Bool(TRUE)

VectorBuilt == ret.vector # <<>>

\* The value create_feature_vector was to put at position i
Expected(i) ==
    IF GetFeatureNames[i] \in DOMAIN ret.vector_of
    THEN ret.vector_of[GetFeatureNames[i]] ELSE Num(0)

\* C17: for every features dict, {} included, create_feature_vector returns
\* a vector of the length of get_feature_names() whose position i holds the
\* value of the feature named get_feature_names()[i] (as np.array stores
\* it), and 0 for a missing key.
C17_VectorFollowsFeatureNames ==
    VectorBuilt =>
        /\ Len(ret.vector) = Len(GetFeatureNames)
        /\ \A i \in 1..Len(GetFeatureNames) :
               ret.vector[i] \in {Expected(i), NpStr(Expected(i))}

\* A dict without the URL features: zeros at their positions, the other
\* features at theirs
C17_Witness ==
    /\ VectorBuilt
    /\ DOMAIN ret.vector_of # {}
    /\ "url_length" \notin DOMAIN ret.vector_of
    /\ GetFeatureNames[1] = "url_length"
    /\ ret.vector[1] = Num(0)
    /\ GetFeatureNames[45] = "num_forms"
    /\ ret.vector_of["num_forms"] = Num(1)
    /\ ret.vector[45] = Num(1)

\* C18: every element of the vector built from what extract_features
\* returned is a number or a boolean.
C18_VectorElementsAreScalars ==
    (VectorBuilt /\ ret.vector_of \in {ret.results[n] :
                                          n \in 1..Len(ret.results)}) =>
        \A i \in 1..Len(ret.vector) : ret.vector[i].t \in {"num", "bool"}

----------------------------------------------------------------------------
(* _calculate_entropy: FeatureExtractor, feature_extractor.py lines        *)
(* 488-503, and PhishingDataCollector, data_collection.py lines 159-176.   *)
(* Floats are kept in thousandths of a bit; a probability is the fraction  *)
(* count / total.                                                          *)

\* Longest text handed to _calculate_entropy.
MaxTextLen == 4

Texts == UNION {[1..n -> {"a", "b", "c"}] : n \in 0..MaxTextLen}

\* 1000 * log2(n), rounded, for n = 1..8
Log2Milli == <<0, 1000, 1585, 2000, 2322, 2585, 2807, 3000>>

\* Counter(text)[c]
Count(c, text) == Cardinality({i \in 1..Len(text) : text[i] = c})

\* A probability smoothed by one unseen character
ProbabilitySmoothed(count, total) == [num |-> count, den |-> total + 1]

\* probability = count / total_chars
Probability(count, total) == [num |-> count, den |-> total]

\* The division raises for total 0, math.log2 raises for a probability <= 0
TermRaises(p) == p.den = 0 \/ p.num <= 0

\* probability * math.log2(probability), in thousandths, sign dropped:
\* log2(num / den) = log2(num) - log2(den)
Term(p) == (p.num * (Log2Milli[p.den] - Log2Milli[p.num])) \div p.den

\* The loop "for count in char_counts.values(): entropy -= ..." over the
\* characters that occur in text
RECURSIVE EntropyLoop(_, _, _)
EntropyLoop(chars, text, entropy) ==
    IF chars = {} THEN entropy
    ELSE LET c == CHOOSE x \in chars : TRUE
             p == Probability(Count(c, text), Len(text))
         IN  IF entropy.raised \/ TermRaises(p)
             THEN [raised |-> TRUE, value |-> 0]
             ELSE EntropyLoop(chars \ {c}, text,
                              [entropy EXCEPT !.value = @ + Term(p)])

\* FeatureExtractor._calculate_entropy, feature_extractor.py lines 488-503;
\* PhishingDataCollector._calculate_entropy, data_collection.py lines
\* 159-176, is the same loop behind the same guard (its additional test
\* "if probability > 0" is true of every count of a Counter)
CalculateEntropy(text) ==
    IF text = <<>> THEN [raised |-> FALSE, value |-> 0]
    ELSE EntropyLoop({text[i] : i \in 1..Len(text)}, text,
                     [raised |-> FALSE, value |-> 0])

NotCalled == [raised |-> FALSE, value |-> -1]

EntropyInit ==
    /\ CollectorInit
    /\ call \in Texts
    /\ ret = [extractor |-> NotCalled, collector |-> NotCalled]

\* extract_features -> _extract_url_features, feature_extractor.py line 99
ExtractorEntropyCall ==
    /\ ret.extractor = NotCalled
    /\ ret' = [ret EXCEPT !.extractor = CalculateEntropy(call)]
    /\ UNCHANGED <<session, batchVars, call>>

\* generate_synthetic_features, data_collection.py lines 132-133
CollectorEntropyCall ==
    /\ ret.collector = NotCalled
    /\ ret' = [ret EXCEPT !.collector = CalculateEntropy(call)]
    /\ UNCHANGED <<session, batchVars, call>>

EntropyNext == ExtractorEntropyCall \/ CollectorEntropyCall

EntropySpec == EntropyInit /\ [][EntropyNext]_vars

\* The empty string, or one character repeated
OneSymbol(text) == \A i, j \in 1..Len(text) : text[i] = text[j]

\* C20: for the empty string and for every string of one repeated
\* character both _calculate_entropy functions return 0.0 and do not raise.
C20_EntropyZeroOnOneSymbol ==
    OneSymbol(call) =>
        /\ ret.extractor \in {NotCalled, [raised |-> FALSE, value |-> 0]}
        /\ ret.collector \in {NotCalled, [raised |-> FALSE, value |-> 0]}

\* "aaaa" through both functions, and a two-symbol text that is not zero
C20_Witness ==
    /\ call = <<"a", "a", "a", "a">>
    /\ ret.extractor = [raised |-> FALSE, value |-> 0]
    /\ ret.collector = [raised |-> FALSE, value |-> 0]
    /\ CalculateEntropy(<<"a", "b">>).value = 1000


----------------------------------------------------------------------------
(* The URL features.  FeatureExtractor._extract_url_features,              *)
(* feature_extractor.py lines 82-143, works on domain = netloc.lower();    *)
(* PhishingDataCollector.generate_synthetic_features, data_collection.py   *)
(* lines 111-151, on domain = netloc.                                      *)

\* The URLs the features are taken of: scheme, host, port and path each
\* range over a few forms; ":x" is a port on which urlparse(url).port
\* raises.
UrlStrings ==
    LET schemes == {<<"h","t","t","p",":","/","/">>, HttpsPrefix,
                    <<"H","T","T","P","S",":","/","/">>}
        hosts == {<<"1","9","2",".","1","6","8",".","1",".","1">>,
                  <<"1",".","2",".","3">>,
                  <<"a",".","b",".">> \o <<"e","x","a","m","p","l","e",".","c","o","m">>,
                  <<"e","x","a","m","p","l","e",".","c","o","m">>,
                  <<"l","o","c","a","l","h","o","s","t">>, <<>>}
        ports == {<<>>, <<":","8","0","8","0">>, <<":","x">>}
        paths == {<<>>, <<"/","l","o","g","i","n">>,
                  <<"/","L","O","G","I","N">>, <<"/","x">>}
    IN  {s \o h \o p \o q :
            s \in schemes, h \in hosts, p \in ports, q \in paths}

\* _has_suspicious_words, data_collection.py lines 178-186
HasSuspiciousWords(url) ==
    \E word \in {<<"l","o","g","i","n">>, <<"s","i","g","n","i","n">>,
                 <<"v","e","r","i","f","y">>, <<"s","e","c","u","r","e">>,
                 <<"a","c","c","o","u","n","t">>,
                 <<"u","p","d","a","t","e">>,
                 <<"c","o","n","f","i","r","m">>,
                 <<"b","a","n","k","i","n","g">>,
                 <<"p","a","y","p","a","l">>, <<"a","m","a","z","o","n">>,
                 <<"m","i","c","r","o","s","o","f","t">>,
                 <<"a","p","p","l","e">>, <<"g","o","o","g","l","e">>,
                 <<"f","a","c","e","b","o","o","k">>,
                 <<"t","w","i","t","t","e","r">>,
                 <<"i","n","s","t","a","g","r","a","m">>} :
        Contains(Lower(url), Lower(word))

\* _has_login_keywords, data_collection.py lines 188-191
HasLoginKeywords(url) ==
    \E keyword \in {<<"l","o","g","i","n">>, <<"s","i","g","n","i","n">>,
                    <<"a","u","t","h">>,
                    <<"a","u","t","h","e","n","t","i","c","a","t","i","o","n">>,
                    <<"c","r","e","d","e","n","t","i","a","l">>} :
        Contains(Lower(url), keyword)

\* generate_synthetic_features, data_collection.py lines 111-151: the
\* features of lines 131, 132, 136 and 141; the division by len(url) of
\* line 140 raises for the empty url, and the except block returns {}
GenerateSyntheticFeatures(url) ==
    IF url = <<>> THEN EmptyDict
    ELSE [k \in {"has_ip_address", "has_https", "has_suspicious_words",
                 "has_login_words"} |->
             CASE k = "has_ip_address" -> Bool(HasIpAddress(UrlNetloc(url)))
               [] k = "has_https" -> Bool(StartsWith(url, HttpsPrefix))
               [] k = "has_suspicious_words" -> Bool(HasSuspiciousWords(url))
               [] k = "has_login_words" -> Bool(HasLoginKeywords(url))]

UrlInit ==
    /\ CollectorInit
    /\ call \in UrlStrings
    /\ ret = [done |-> {}, extractor |-> EmptyDict, collector |-> EmptyDict,
              num_subdomains |-> 0]

\* extract_features -> _extract_url_features(website_data.url), line 48
ExtractUrlFeaturesCall ==
    /\ "extractor" \notin ret.done
    /\ ret' = [ret EXCEPT !.done = @ \cup {"extractor"},
                          !.extractor = ExtractGroup("url", [url |-> call])]
    /\ UNCHANGED <<session, batchVars, call>>

\* collect_and_process_data -> generate_synthetic_features(url),
\* data_collection.py line 223
GenerateSyntheticFeaturesCall ==
    /\ "collector" \notin ret.done
    /\ ret' = [ret EXCEPT !.done = @ \cup {"collector"},
                          !.collector = GenerateSyntheticFeatures(call)]
    /\ UNCHANGED <<session, batchVars, call>>

\* _count_subdomains(domain) as line 103 calls it, domain being
\* parsed.netloc.lower() of line 88
CountSubdomainsCall ==
    /\ "subdomains" \notin ret.done
    /\ ret' = [ret EXCEPT !.done = @ \cup {"subdomains"},
                          !.num_subdomains =
                              CountSubdomains(Lower(UrlNetloc(call)))]
    /\ UNCHANGED <<session, batchVars, call>>

UrlNext ==
    \/ ExtractUrlFeaturesCall
    \/ GenerateSyntheticFeaturesCall
    \/ CountSubdomainsCall

UrlSpec == UrlInit /\ [][UrlNext]_vars

ScenarioUrl ==
    <<"h","t","t","p",":","/","/">>
        \o <<"1","9","2",".","1","6","8",".","1",".","1">>
        \o <<"/","l","o","g","i","n">>

\* The number a run of decimal digits writes (int(s) for such a run)
RECURSIVE NumberOf(_)
NumberOf(s) ==
    IF s = <<>> THEN 0
    ELSE 10 * NumberOf(SubSeq(s, 1, Len(s) - 1))
           + (CHOOSE d \in 0..9 : ToString(d) = s[Len(s)])

\* host is a dotted-quad IPv4 literal: four decimal numbers of at most 255
IsDottedQuad(host) ==
    /\ Cardinality({i \in 1..Len(host) : host[i] = "."}) = 3
    /\ \A i \in 1..Len(host) :
           host[i] \in {".","0","1","2","3","4","5","6","7","8","9"}
    /\ \A i \in 1..4 :
           LET part == Split(host, ".")[i] IN
           Len(part) \in 1..3 /\ NumberOf(part) <= 255

ExtractorReturned == "extractor" \in ret.done
CollectorReturned == "collector" \in ret.done

\* What holds of the scenario: for http://192.168.1.1/login both functions
\* report has_ip_address, neither reports https, and
\* generate_synthetic_features reports the login and the suspicious words.
ScenarioUrlFeatures ==
    call = ScenarioUrl =>
        /\ ExtractorReturned =>
               /\ ret.extractor["has_ip_address"] = Bool(TRUE)
               /\ ret.extractor["is_https"] = Bool(FALSE)
        /\ CollectorReturned =>
               /\ ret.collector["has_ip_address"] = Bool(TRUE)
               /\ ret.collector["has_login_words"] = Bool(TRUE)
               /\ ret.collector["has_suspicious_words"] = Bool(TRUE)
               /\ ret.collector["has_https"] = Bool(FALSE)

\* C21: for http://192.168.1.1/login the URL features are has_ip_address
\* true, the login keyword hit true and is_https false; and for every URL,
\* has_ip_address is true when the host is a dotted-quad IPv4 literal, and
\* is_https is true exactly when the URL starts with https://.
C21_UrlFeatures ==
    /\ ScenarioUrlFeatures
    /\ ExtractorReturned =>
           /\ IsDottedQuad(UrlHostname(call)) =>
                  ret.extractor["has_ip_address"] = Bool(TRUE)
           /\ ret.extractor["is_https"] = Bool(StartsWith(call, HttpsPrefix))
    /\ CollectorReturned =>
           /\ IsDottedQuad(UrlHostname(call)) =>
                  ret.collector["has_ip_address"] = Bool(TRUE)
           /\ ret.collector["has_https"] = Bool(StartsWith(call, HttpsPrefix))

\* The number of '.' in domain
DotCount(domain) == Cardinality({i \in 1..Len(domain) : domain[i] = "."})

\* C25: for every domain string, _count_subdomains(domain) is
\* max(0, (number of dots in domain) - 1).
C25_SubdomainsAreDotsLessOne ==
    "subdomains" \in ret.done =>
        ret.num_subdomains = Max(0, DotCount(Lower(UrlNetloc(call))) - 1)

\* a.b.example.com gives 2; example.com and localhost give 0
C25_Witness ==
    /\ "subdomains" \in ret.done
    /\ Lower(UrlNetloc(call)) = <<"a",".","b",".">> \o <<"e","x","a","m","p","l","e",".","c","o","m">>
    /\ ret.num_subdomains = 2
    /\ CountSubdomains(<<"e","x","a","m","p","l","e",".","c","o","m">>) = 0
    /\ CountSubdomains(<<"l","o","c","a","l","h","o","s","t">>) = 0


----------------------------------------------------------------------------
(* WebDataCollector._calculate_ssl_validity, web_collector.py lines        *)
(* 294-306, and what _extract_ssl_features makes of its result.  Instants  *)
(* are whole hours.  notAfter is a GMT wall-clock reading that strptime    *)
(* turns into a naive datetime (line 301); datetime.now() (line 302) is    *)
(* the naive wall-clock reading of the machine's local time zone.          *)

\* The certificates handed to _calculate_ssl_validity: notAfter a date
\* not_after hours after the call ("dated"), a string strptime rejects
\* ("garbled"), or no notAfter at all ("absent")
Certs ==
    [kind : {"dated"},
     not_after : {-30, -1, 0, 1, 239, 240, 241, 263, 264, 720, 960}]
        \cup [kind : {"garbled", "absent"}, not_after : {0}]

\* Hours the machine's local time is ahead of GMT
UtcOffsets == {-5, 0, 2, 8}

\* datetime.now(), line 302, in hours after the instant of the call
DatetimeNow(utc_offset) == utc_offset

\* (expiry_date - datetime.now()).days, line 302: timedelta.days is the
\* floor of the difference in days
DaysLeft(expiry_date, now) == (expiry_date - now) \div 24

SslValidityInit ==
    /\ CollectorInit
    /\ call \in [cert : Certs, utc_offset : UtcOffsets]
    /\ ret = [step |-> "start", valid_days |-> 0, features |-> EmptyDict]

\* _get_ssl_info, line 286: 'valid_days': self._calculate_ssl_validity(cert)
CalculateSslValidityCall ==
    /\ ret.step = "start"
    /\ ret' = [ret EXCEPT
                  !.step = "valid_days",
                  !.valid_days = CalculateSslValidity(
                      [parsable |-> call.cert.kind = "dated",
                       days_left |-> DaysLeft(call.cert.not_after,
                                              DatetimeNow(call.utc_offset))])]
    /\ UNCHANGED <<session, batchVars, call>>

\* _extract_ssl_features on a record whose ssl_info is the dict of lines
\* 279-287 with that valid_days
SslFeaturesCall ==
    /\ ret.step = "valid_days"
    /\ ret' = [ret EXCEPT
                  !.step = "features",
                  !.features = ExtractGroup("ssl",
                      [url |-> HttpsUrl,
                       ssl_info |-> DictValue(<<"valid_days">>,
                                              ret.valid_days)])]
    /\ UNCHANGED <<session, batchVars, call>>

SslValidityNext == CalculateSslValidityCall \/ SslFeaturesCall

SslValiditySpec == SslValidityInit /\ [][SslValidityNext]_vars

\* Whole days from the call to notAfter, both taken in GMT
DaysToNotAfter == call.cert.not_after \div 24

\* What holds on every machine: the result is never negative, it is 0 for
\* an expired certificate and for one without a readable notAfter, and it
\* is max(0, whole days from now to notAfter) when local time is GMT.
ValidityNeverNegative ==
    ret.step # "start" =>
        /\ ret.valid_days >= 0
        /\ call.cert.kind # "dated" => ret.valid_days = 0
        /\ (call.cert.kind = "dated" /\ call.cert.not_after < 0) =>
               ret.valid_days = 0
        /\ (call.cert.kind = "dated" /\ call.utc_offset = 0) =>
               ret.valid_days = Max(0, DaysToNotAfter)

\* C22: _calculate_ssl_validity returns max(0, days between notAfter and
\* now), 0 for a certificate without a readable notAfter; for a notAfter 10
\* days ahead it returns 10 and ssl_expires_soon is then true.
C22_ValidDaysAreDaysToNotAfter ==
    /\ ret.step # "start" =>
           ret.valid_days = IF call.cert.kind = "dated"
                            THEN Max(0, DaysToNotAfter) ELSE 0
    /\ (ret.step = "features" /\ call.cert.kind = "dated"
                              /\ DaysToNotAfter = 10) =>
           /\ ret.features["ssl_valid_days"] = Num(10)
           /\ ret.features["ssl_expires_soon"] = Bool(TRUE)


----------------------------------------------------------------------------
(* The fingerprint string and the letter case of header names and values   *)
(* (FingerprintSpec above).                                                *)

\* The value of the header called name, whatever letter case the server
\* sent the name in; '' when the response has no such header
HeaderValue(headers, name) ==
    LET sent == {k \in DOMAIN headers :
                    k = name \/ (k = "Server" /\ name = "server")}
    IN  IF sent = {} THEN <<>> ELSE headers[CHOOSE k \in sent : TRUE]

\* The string the fingerprint is said to hash
LowercasedFingerprintData(a) ==
    a.url \o <<"|">> \o Lower(HeaderValue(a.headers, "server")) \o <<"|">>
          \o Lower(HeaderValue(a.headers, "x-powered-by")) \o <<"|">>
          \o Decimal(Len(a.html_content))

\* The response has the Server header once
OneServerHeader(a) == ~({"server", "Server"} \subseteq DOMAIN a.headers)

\* C23: the string _generate_fingerprint hashes is the url, the lower-cased
\* value of the response's Server header, the lower-cased value of its
\* X-Powered-By header ('' for an absent header) and the decimal length of
\* the body, joined by '|'.
C23_FingerprintLowercasesHeaders ==
    \A k \in 1..2 :
        (ret[k] # NoDigest /\ OneServerHeader(call[k])) =>
            ret[k] = Sha256Hex(LowercasedFingerprintData(call[k]))

\* What holds instead: responses whose headers were sent as "Server" get
\* the fingerprint of a response without that header, and values stored
\* under "server" that differ in letter case get different fingerprints.
FingerprintIsCaseSensitive ==
    BothFingerprinted =>
        /\ (/\ call[1].url = call[2].url
            /\ Len(call[1].html_content) = Len(call[2].html_content)
            /\ DOMAIN call[1].headers = {"Server"}
            /\ DOMAIN call[2].headers = {}) => ret[1] = ret[2]
        /\ (/\ DOMAIN call[1].headers = {"server"}
            /\ DOMAIN call[2].headers = {"server"}
            /\ call[1].headers["server"] # call[2].headers["server"])
               => ret[1] # ret[2]


----------------------------------------------------------------------------
(* The content_length field: collect_website_data, web_collector.py lines  *)
(* 99-112 and 141.                                                         *)

\* dict(response.headers) as far as the body length goes: the header may be
\* missing, sent as "Content-Length" or as "content-length", and its value
\* need not be a number
LengthHeaders ==
    UNION {[S -> {<<"0">>, <<"7">>, <<"1","2">>, <<"x">>}] :
              S \in SUBSET {"Content-Length", "content-length"}}

\* int(s) raises ValueError unless s is a run of decimal digits (signs and
\* surrounding blanks do not occur in the model)
IntRaises(s) ==
    \/ s = <<>>
    \/ \E i \in 1..Len(s) :
           s[i] \notin {"0","1","2","3","4","5","6","7","8","9"}

\* line 108: int(headers.get('Content-Length', 0)); value is the integer,
\* raised tells that int() raised
ContentLength(headers) ==
    IF "Content-Length" \notin DOMAIN headers
    THEN [raised |-> FALSE, value |-> 0]
    ELSE IF IntRaises(headers["Content-Length"])
         THEN [raised |-> TRUE, value |-> 0]
         ELSE [raised |-> FALSE,
               value |-> NumberOf(headers["Content-Length"])]

LengthInit ==
    /\ CollectorInit
    /\ call \in [headers : LengthHeaders, html_content : Bodies]
    /\ ret = [step |-> "start", record |-> None]

\* collect_website_data from the response to the record, lines 99-160, for
\* the content_length field: a ValueError of line 108 ends in the handler
\* of lines 162-164, which returns None
CollectContentLength ==
    /\ ret.step = "start"
    /\ LET r == ContentLength(call.headers) IN
       ret' = [step |-> "returned",
               record |-> IF r.raised THEN OnException("ValueError")
                          ELSE [tag |-> "WebsiteData",
                                content_length |-> r.value]]
    /\ UNCHANGED <<session, batchVars, call>>

LengthSpec == LengthInit /\ [][CollectContentLength]_vars

\* The response carries the header, in whatever letter case
HasLengthHeader == DOMAIN call.headers # {}

\* C24: in every WebsiteData, content_length is the Content-Length header
\* value when the response carries that header, and the size of the body
\* when it does not.
C24_ContentLengthHeaderOrBodySize ==
    (ret.step = "returned" /\ IsWebsiteData(ret.record)) =>
        IF HasLengthHeader
        THEN \E k \in DOMAIN call.headers :
                 /\ ~IntRaises(call.headers[k])
                 /\ ret.record.content_length = NumberOf(call.headers[k])
        ELSE ret.record.content_length = Len(call.html_content)

\* What holds instead: content_length is the value sent as "Content-Length"
\* and 0 without a header of exactly that name, whatever the body is.
ContentLengthHeaderOrZero ==
    (ret.step = "returned" /\ IsWebsiteData(ret.record)) =>
        ret.record.content_length =
            IF "Content-Length" \in DOMAIN call.headers
            THEN NumberOf(call.headers["Content-Length"]) ELSE 0


----------------------------------------------------------------------------
(* _extract_ssl_features, feature_extractor.py lines 443-486 (FeatureSpec  *)
(* above).                                                                 *)

\* ssl_info as collect_website_data leaves it: None, or the dict of
\* web_collector.py lines 279-287, which always has 'valid_days'
FromGetSslInfo(v) ==
    v = NoneValue \/ (v.t = "dict" /\ v.s = <<"valid_days">>)

SslGroupReturned == GroupReturned /\ LastGroup = "ssl"

\* C26: for ssl_info as the collector provides it, has_ssl is true exactly
\* when ssl_info is not None, ssl_valid_days is the certificate's valid_days
\* (0 without ssl_info), and ssl_expires_soon is true exactly when that
\* number is below 30.
C26_SslFeaturesFollowSslInfo ==
    (SslGroupReturned /\ FromGetSslInfo(Given.ssl_info)) =>
        /\ ret.group["has_ssl"] = Bool(Given.ssl_info # NoneValue)
        /\ ret.group["ssl_valid_days"] =
               Num(IF Given.ssl_info = NoneValue THEN 0
                   ELSE Given.ssl_info.n)
        /\ ret.group["ssl_expires_soon"] =
               Bool(ret.group["ssl_valid_days"].n < 30)

\* A certificate with 400 days left: has_ssl, not expiring soon
C26_Witness ==
    /\ SslGroupReturned
    /\ Given.ssl_info = DictValue(<<"valid_days">>, 400)
    /\ ret.group["has_ssl"] = Bool(TRUE)
    /\ ret.group["ssl_valid_days"] = Num(400)
    /\ ret.group["ssl_expires_soon"] = Bool(FALSE)


----------------------------------------------------------------------------
(* has_obfuscated_js: _extract_javascript_features, feature_extractor.py   *)
(* lines 344-355, and _detect_obfuscation, lines 543-558.  A script is a   *)
(* sequence of tokens: a hex escape, a unicode escape, an identifier, '=', *)
(* 'function', 'eval', 'document.write', 'fromCharCode', '(' and a blank.  *)

\* Longest inline script, in tokens.
MaxScriptLen == 3

Scripts ==
    UNION {[1..n -> {"\\x4A", "\\u0041", "f", "=", "function", "eval",
                     "document.write", "fromCharCode", "(", " "}] :
              n \in 0..MaxScriptLen}

\* Where \s* ends when it starts at position i: the first position from i
\* on that holds no blank
AfterBlanks(s, i) ==
    IF i > Len(s) THEN Len(s) + 1
    ELSE CHOOSE j \in i..(Len(s) + 1) :
             /\ \A k \in i..(j - 1) : s[k] = " "
             /\ j = Len(s) + 1 \/ s[j] # " "

\* re.search of "name\s*\(" for name one of the tokens in names
SearchCall(names, s) ==
    \E i \in 1..Len(s) :
        /\ s[i] \in names
        /\ AfterBlanks(s, i + 1) <= Len(s)
        /\ s[AfterBlanks(s, i + 1)] = "("

\* _detect_obfuscation, lines 543-558: any(re.search(pattern, js_content))
\* over the six patterns of lines 549-556, in their order; the third one,
\* identifier \s* = \s* function, finds its identifier at the end of every
\* token but '=', '(' and the blank
DetectObfuscation(js_content) ==
    /\ js_content # <<>>
    /\ \/ \E i \in 1..Len(js_content) : js_content[i] \in {"\\x4a", "\\x4A"}
       \/ \E i \in 1..Len(js_content) : js_content[i] = "\\u0041"
       \/ \E i \in 1..Len(js_content) :
              LET j == AfterBlanks(js_content, i + 1)
                  k == AfterBlanks(js_content, j + 1)
              IN  /\ js_content[i] \notin {"=", "(", " "}
                  /\ k <= Len(js_content)
                  /\ js_content[j] = "="
                  /\ js_content[k] = "function"
       \/ SearchCall({"eval"}, js_content)
       \/ SearchCall({"document.write"}, js_content)
       \/ SearchCall({"fromCharCode"}, js_content)

ObfuscationInit ==
    /\ CollectorInit
    /\ call \in Scripts
    /\ ret = [step |-> "start", has_obfuscated_js |-> FALSE]

\* _extract_javascript_features on a page whose one inline script is call,
\* lines 344-355: js_content = ' '.join(scripts).lower(), then
\* features['has_obfuscated_js'] = self._detect_obfuscation(js_content)
JavascriptFeaturesCall ==
    /\ ret.step = "start"
    /\ ret' = [step |-> "returned",
               has_obfuscated_js |-> DetectObfuscation(Lower(call))]
    /\ UNCHANGED <<session, batchVars, call>>

ObfuscationSpec == ObfuscationInit /\ [][JavascriptFeaturesCall]_vars

\* The signals as the script text shows them
HasEscape(s) == \E i \in 1..Len(s) : s[i] \in {"\\x4A", "\\u0041"}

HasFunctionAssignment(s) ==
    \E i \in 1..Len(s) :
        LET j == AfterBlanks(s, i + 1)
            k == AfterBlanks(s, j + 1)
        IN  /\ s[i] \notin {"=", "(", " "}
            /\ k <= Len(s)
            /\ s[j] = "="
            /\ s[k] = "function"

\* C27: has_obfuscated_js is true when the script text contains a hex
\* escape, a unicode escape, an anonymous-function assignment, eval(,
\* document.write( or fromCharCode(, and false when it contains none.
C27_ObfuscationIsOrOfSignals ==
    ret.step = "returned" =>
        ret.has_obfuscated_js =
            (\/ HasEscape(call)
             \/ HasFunctionAssignment(call)
             \/ SearchCall({"eval", "document.write", "fromCharCode"}, call))

\* What holds: the five other signals are found, fromCharCode( alone is
\* not, and a script with no signal is reported as not obfuscated.
ObfuscationButFromCharCode ==
    ret.step = "returned" =>
        ret.has_obfuscated_js =
            (\/ HasEscape(call)
             \/ HasFunctionAssignment(call)
             \/ SearchCall({"eval", "document.write"}, call))


----------------------------------------------------------------------------
(* The session and the semaphore of collect_batch (Spec above).            *)

\* Task i has issued its fetch: collect_website_data has reached
\* self.session.get (line 96)
FetchIssued(i) == pc[i] # "acquire"

\* C28: in collect_batch the session of the batch's collector is open at the
\* moment each fetch is issued: it was created before the first fetch and is
\* not closed before the last one ends.
C28_SessionOpenAtEveryFetch ==
    (phase = "running" /\ \E i \in Tasks : FetchIssued(i)) =>
        session = "open"

\* What holds: a request is on its way only through an open session, and a
\* fetch issued without one ends at once as a failed collection.
InFlightOnlyWithSession ==
    /\ (\E i \in Tasks : pc[i] \in InFlightPcs) => session = "open"
    /\ (phase = "running" /\ session # "open") =>
           \A i \in Tasks : FetchIssued(i) => ev[i] = "no_session"

\* Tasks that hold a slot: admitted at line 324 and not yet ended
SlotsHeld == Cardinality(InFlight)

\* C29: the slots taken from the semaphore are those of the collections
\* under way, so every slot taken for a URL is back when its collection has
\* ended, however it ended; when collect_batch returns no slot is held, and
\* every batch, a later one on the same collector included, starts with all
\* max_concurrent slots free.
C29_SlotsReleased ==
    /\ phase \in {"running", "returned"} => sem = maxc - SlotsHeld
    /\ Returned => sem = maxc
    /\ (phase = "running" /\ \A i \in Tasks : ~FetchIssued(i)) => sem = maxc

\* A batch of two slots has returned after one collection gave data, one
\* failed in the fetch and one failed after the fetch
C29_Witness ==
    /\ Returned
    /\ maxc = 2
    /\ sem = 2
    /\ \E i, j, k \in Tasks :
           /\ IsWebsiteData(results[i])
           /\ ev[j] \in GetFailures
           /\ ev[k] \in {"body_error", "parse_error"}


----------------------------------------------------------------------------
(* Writers and vector positions of the feature names (FeatureSpec above).  *)

\* The groups whose extractor writes feature k
Writers(k) == {i \in 1..Len(Groups) : k \in GroupKeys(Groups[i])}

\* The positions of the feature order that hold feature k
Positions(k) == {i \in 1..Len(FeatureOrder) : FeatureOrder[i] = k}

\* C30: every feature of the dict extract_features returns is written by
\* exactly one group, stands at exactly one position of the feature order,
\* and holds the value its own group computed, which is also the value at
\* its position of the vector.
C30_OneWriterOnePosition ==
    \A n \in 1..Len(ret.results) : \A k \in DOMAIN ret.results[n] :
        /\ Cardinality(Writers(k)) = 1
        /\ Cardinality(Positions(k)) = 1
        /\ \A i \in Writers(k) :
               /\ ret.results[n][k] = ExtractGroup(Groups[i], Given)[k]
               /\ \A p \in Positions(k) :
                      CreateFeatureVector(ret.results[n])[p]
                          \in {ExtractGroup(Groups[i], Given)[k],
                               NpStr(ExtractGroup(Groups[i], Given)[k])}

\* What holds: content_length_log is the one feature with two writers (the
\* HTTP group and the content group) and two positions, and it holds what
\* the later writer, the content group, returned; path_length and
\* query_length have no position; every other feature has one writer, one
\* position and the value its group returned.
OneWriterButContentLengthLog ==
    \A n \in 1..Len(ret.results) : \A k \in DOMAIN ret.results[n] :
        /\ Cardinality(Writers(k)) = IF k = "content_length_log" THEN 2 ELSE 1
        /\ Cardinality(Positions(k)) =
               CASE k = "content_length_log" -> 2
                 [] k \in {"path_length", "query_length"} -> 0
                 [] OTHER -> 1
        /\ ret.results[n][k] =
               ExtractGroup(Groups[CHOOSE i \in Writers(k) :
                                       \A j \in Writers(k) : j <= i],
                            Given)[k]

====
